---------------------------- MODULE Spec2Model ----------------------------
(***************************************************************************)
(* A model of src/src/camFusion_Student.cpp: the association of lidar      *)
(* points and keypoint matches with bounding boxes, the matching of        *)
(* bounding boxes between two frames, and the two time-to-collision        *)
(* estimators.  Each function of the file is a small state machine of its  *)
(* own (one specification per function); the variables are the arguments   *)
(* and locals of the functions.                                            *)
(*                                                                         *)
(* Numbers.  Pixel coordinates of keypoints (cv::Point2f) are kept in      *)
(* half pixels, so that the rounding of the Point2f -> Point conversion    *)
(* in cv::Rect::contains is part of the model.  Lidar coordinates of the   *)
(* TTC estimator are kept in units of 1/64 m, which a float holds exactly. *)
(* Quotients (distance ratios, TTC) are exact fractions <<num, den>>; the  *)
(* rounding of double arithmetic is not modelled.                          *)
(***************************************************************************)
EXTENDS Integers, Naturals, Sequences, FiniteSets, TLC

VARIABLES
    pc,               \* position of the running function
    \* ---- clusterLidarWithROI / clusterKptMatchesWithROI
    boundingBoxes,    \* std::vector<BoundingBox>
    lidarPoints,      \* std::vector<LidarPoint>
    shrinkFactor,     \* float shrinkFactor, in quarters (q stands for q/4)
    P_rect_xx,        \* cv::Mat 3x4
    R_rect_xx,        \* cv::Mat 4x4
    RT,               \* cv::Mat 4x4
    it1,              \* outer loop position (1-based)
    pts,              \* history: the pixel pt computed for each lidar point
    \* ---- matchBoundingBoxes
    matches,          \* std::vector<cv::DMatch>
    prevFrame,        \* DataFrame: keypoints, boundingBoxes
    currFrame,        \* DataFrame: keypoints, boundingBoxes
    bbBestMatches,    \* std::map<int,int>
    \* ---- clusterKptMatchesWithROI
    kptsPrev,         \* std::vector<cv::KeyPoint>
    kptsCurr,         \* std::vector<cv::KeyPoint>
    kptMatches,       \* std::vector<cv::DMatch>
    boxIdx,           \* the bounding box the caller is at (1-based)
    buf,              \* storage of boundingBox.kptMatches (capacity slots)
    size,             \* boundingBox.kptMatches.size()
    mean,             \* <<sum, n>>: the mean distance sum / n
    it,               \* the erase loop's iterator, as an offset from begin()
    reads,            \* history: <<offset read, size at the read, match read (0: none)>>
    \* ---- computeTTCCamera
    it2,              \* inner loop position
    distRatios,       \* std::vector<double>, as fractions
    pairs,            \* history: the <<it1, it2>> the inner loop body ran on
    medianDistRatio,  \* double medianDistRatio
    frameRate,        \* double frameRate
    TTC,              \* double &TTC
    \* ---- clustering
    cloud,            \* pcl::PointCloud<pcl::PointXYZ> cloud
    seed,             \* the extraction's loop over the points (1-based)
    processed,        \* the points the extraction has put in a queue
    seedQueue,        \* the queue of the cluster being grown
    sqIdx,            \* the position in the queue (1-based)
    clusterIndices,   \* std::vector<pcl::PointIndices>
    \* ---- computeTTCLidar
    lidarPointsPrev,  \* std::vector<LidarPoint>
    lidarPointsCurr,  \* std::vector<LidarPoint>
    clusterPrevPts,   \* clustering(lidarPointsPrev, ...)->points
    clusterCurrPts,   \* clustering(lidarPointsCurr, ...)->points
    minXPrev,         \* double minXPrev
    minXCurr          \* double minXCurr

roiVars == <<lidarPoints, shrinkFactor, P_rect_xx, R_rect_xx, RT, pts>>
matchVars == <<matches, prevFrame, currFrame, bbBestMatches>>
kptVars == <<kptsPrev, kptsCurr, kptMatches>>
eraseVars == <<boxIdx, buf, size, mean, it, reads>>
camVars == <<it2, distRatios, pairs, medianDistRatio>>
ttcVars == <<frameRate, TTC>>
clusterVars == <<cloud, seed, processed, seedQueue, sqIdx, clusterIndices>>
lidarInput == <<lidarPointsPrev, lidarPointsCurr>>
ttcLidarVars == <<clusterVars, lidarInput, clusterPrevPts, clusterCurrPts, minXPrev, minXCurr>>

vars == <<pc, boundingBoxes, it1, roiVars, matchVars, kptVars, eraseVars, camVars, ttcVars, ttcLidarVars>>

(***************************************************************************)
(* Values the variables of the functions that are not running hold.        *)
(***************************************************************************)
IdleRoi ==
    /\ lidarPoints = <<>> /\ shrinkFactor = 0
    /\ P_rect_xx = <<>> /\ R_rect_xx = <<>> /\ RT = <<>> /\ pts = <<>>

IdleMatch ==
    /\ matches = <<>>
    /\ prevFrame = [keypoints |-> <<>>, boundingBoxes |-> <<>>]
    /\ currFrame = [keypoints |-> <<>>, boundingBoxes |-> <<>>]
    /\ bbBestMatches = <<>>

IdleKpt == kptsPrev = <<>> /\ kptsCurr = <<>> /\ kptMatches = <<>>

IdleErase ==
    /\ boxIdx = 0 /\ buf = <<>> /\ size = 0 /\ mean = <<0, 0>> /\ it = 0
    /\ reads = <<>>

IdleCam ==
    /\ it2 = 0 /\ distRatios = <<>> /\ pairs = <<>>
    /\ medianDistRatio = <<0, 0>>

\* A double that is a result.  kind is "value" (the reduced fraction a / b),
\* "nan", "inf", "-inf", "unset" (never assigned: the caller's value), or names
\* a quotient kept unevaluated (see Quotient).
Double(kind, a, b) == [kind |-> kind, a |-> a, b |-> b]
Special(kind) == Double(kind, 0, 0)

IdleTtc == frameRate = 0 /\ TTC = Special("unset")

IdleCluster ==
    /\ cloud = <<>> /\ seed = 0 /\ processed = {} /\ seedQueue = <<>>
    /\ sqIdx = 0 /\ clusterIndices = <<>>

IdleTtcLidar ==
    /\ IdleCluster
    /\ lidarPointsPrev = <<>> /\ lidarPointsCurr = <<>>
    /\ clusterPrevPts = <<>> /\ clusterCurrPts = <<>>
    /\ minXPrev = 0 /\ minXCurr = 0

(***************************************************************************)
(* Arithmetic helpers.                                                     *)
(***************************************************************************)
Abs(a) == IF a < 0 THEN -a ELSE a

\* The conversion of the double a / b to int: truncation toward zero.
TruncDiv(a, b) ==
    LET q == Abs(a) \div Abs(b)
    IN  IF (a < 0) = (b < 0) THEN q ELSE -q

\* cv::Rect_<int>::contains(cv::Point_<int>): half-open on the right and bottom.
Contains(roi, pt) ==
    /\ roi.x <= pt.x /\ pt.x < roi.x + roi.width
    /\ roi.y <= pt.y /\ pt.y < roi.y + roi.height

BoundingBox(id, roi) ==
    [boxID |-> id, roi |-> roi, lidarPoints |-> <<>>, kptMatches |-> <<>>]

Rect(x, y, w, h) == [x |-> x, y |-> y, width |-> w, height |-> h]

\* The sequences over S of length at most n.
SeqUpTo(S, n) == UNION {[1..k -> S] : k \in 0..n}

\* The sequences over S of length at most n with no element repeated.
InjSeqUpTo(S, n) ==
    {s \in SeqUpTo(S, n) : \A i, j \in DOMAIN s : i # j => s[i] # s[j]}

(***************************************************************************)
(* clusterLidarWithROI (lines 13-59).                                      *)
(***************************************************************************)
MaxLidarPoints == 2
MaxBoxes == 2

RECURSIVE Dot(_, _, _)
Dot(row, v, n) == IF n = 0 THEN 0 ELSE row[n] * v[n] + Dot(row, v, n - 1)

\* cv::Mat product of a matrix (a sequence of rows) and a column vector.
MatVec(M, v) == [i \in 1..Len(M) |-> Dot(M[i], v, Len(v))]

\* Mat::at<double>(i, j) of a continuous matrix with `cols` columns: the
\* element at offset i * cols + j of the data (no range check in a release build).
At(data, cols, i, j) == data[i * cols + j + 1]

\* Lines 22-28: Y = P_rect_xx * R_rect_xx * RT * X, a 3x1 matrix.
ProjectY(p) == MatVec(P_rect_xx, MatVec(R_rect_xx, MatVec(RT, <<p.x, p.y, p.z, 1>>)))

\* Lines 29-31: the pixel; both coordinates are divided by Y.at(0, 2).
ProjectPixel(p) ==
    LET Y == ProjectY(p)
    IN  [x |-> TruncDiv(At(Y, 1, 0, 0), At(Y, 1, 0, 2)),
         y |-> TruncDiv(At(Y, 1, 1, 0), At(Y, 1, 0, 2))]

\* Lines 37-41: the shrunk box; the doubles are truncated on assignment to int.
SmallerBox(roi) ==
    Rect(TruncDiv(8 * roi.x + shrinkFactor * roi.width, 8),
         TruncDiv(8 * roi.y + shrinkFactor * roi.height, 8),
         TruncDiv(roi.width * (4 - shrinkFactor), 4),
         TruncDiv(roi.height * (4 - shrinkFactor), 4))

\* Lines 33-49: the boxes (their positions, in order) whose shrunk box contains pt.
EnclosingBoxes(pt) ==
    SelectSeq([b \in 1..Len(boundingBoxes) |-> b],
              LAMBDA b : Contains(SmallerBox(boundingBoxes[b].roi), pt))

\* A plausible slip: the point goes to the first enclosing box.
AddToEnclosing_first(boxes, enclosing, p) ==
    IF Len(enclosing) >= 1
    THEN [boxes EXCEPT ![enclosing[1]].lidarPoints = Append(@, p)]
    ELSE boxes

\* Lines 52-56: the point is added when exactly one box encloses it.
AddToEnclosing(boxes, enclosing, p) ==
    IF Len(enclosing) = 1
    THEN [boxes EXCEPT ![enclosing[1]].lidarPoints = Append(@, p)]
    ELSE boxes

\* What the conversion of an infinite or not-a-number double to int may give.
GarbageCoord == {-2147483647 - 1, 4}

\* One iteration of the loop over the lidar points, the depth being non-zero.
LidarPointStep ==
    /\ pc = "lidar"
    /\ it1 <= Len(lidarPoints)
    /\ At(ProjectY(lidarPoints[it1]), 1, 0, 2) # 0
    /\ LET pt == ProjectPixel(lidarPoints[it1])
       IN  /\ boundingBoxes' = AddToEnclosing(boundingBoxes, EnclosingBoxes(pt), lidarPoints[it1])
           /\ pts' = Append(pts, pt)
    /\ it1' = it1 + 1
    /\ UNCHANGED <<pc, lidarPoints, shrinkFactor, P_rect_xx, R_rect_xx, RT>>
    /\ UNCHANGED <<matchVars, kptVars, eraseVars, camVars, ttcVars, ttcLidarVars>>

\* The same with a zero depth: the quotients are infinite or not a number, and
\* their conversion to int is undefined.
LidarPointDegenerate ==
    /\ pc = "lidar"
    /\ it1 <= Len(lidarPoints)
    /\ At(ProjectY(lidarPoints[it1]), 1, 0, 2) = 0
    /\ \E gx \in GarbageCoord, gy \in GarbageCoord :
         LET pt == [x |-> gx, y |-> gy]
         IN  /\ boundingBoxes' = AddToEnclosing(boundingBoxes, EnclosingBoxes(pt), lidarPoints[it1])
             /\ pts' = Append(pts, pt)
    /\ it1' = it1 + 1
    /\ UNCHANGED <<pc, lidarPoints, shrinkFactor, P_rect_xx, R_rect_xx, RT>>
    /\ UNCHANGED <<matchVars, kptVars, eraseVars, camVars, ttcVars, ttcLidarVars>>

\* The loop over the lidar points ends and the function returns.
LidarReturn ==
    /\ pc = "lidar"
    /\ it1 > Len(lidarPoints)
    /\ pc' = "done"
    /\ UNCHANGED <<boundingBoxes, it1, roiVars>>
    /\ UNCHANGED <<matchVars, kptVars, eraseVars, camVars, ttcVars, ttcLidarVars>>

RoiRects == {Rect(0, 0, 8, 8), Rect(4, 0, 8, 8), Rect(2, 2, 4, 4)}

LidarPts ==
    {[x |-> 1, y |-> 1, z |-> 0], [x |-> 1, y |-> 0, z |-> 0],
     [x |-> 1, y |-> -1, z |-> -1], [x |-> 2, y |-> -1, z |-> 0],
     [x |-> 2, y |-> 1, z |-> -1], [x |-> 0, y |-> 0, z |-> 0]}

\* Projection f = 2, principal point (4, 4).
ProjMats == {<<<<2, 0, 4, 0>>, <<0, 2, 4, 0>>, <<0, 0, 1, 0>>>>}

RectMats == {<<<<1, 0, 0, 0>>, <<0, 1, 0, 0>>, <<0, 0, 1, 0>>, <<0, 0, 0, 1>>>>}

\* Lidar (x forward, y left, z up) to camera (x right, y down, z forward),
\* with the camera at the lidar or one unit ahead of it.
RigidMats ==
    {<<<<0, -1, 0, 0>>, <<0, 0, -1, 0>>, <<1, 0, 0, t>>, <<0, 0, 0, 1>>>> : t \in {0, -1}}

\* The bounding boxes of a frame: boxID is the position in the detector's output.
BoxLists(rects, n) ==
    {[i \in DOMAIN s |-> BoundingBox(i - 1, s[i])] : s \in InjSeqUpTo(rects, n)}

InitLidarROI ==
    /\ pc = "lidar"
    /\ boundingBoxes \in BoxLists(RoiRects, MaxBoxes)
    /\ lidarPoints \in SeqUpTo(LidarPts, MaxLidarPoints)
    /\ shrinkFactor \in {0, 1, 2}
    /\ P_rect_xx \in ProjMats
    /\ R_rect_xx \in RectMats
    /\ RT \in RigidMats
    /\ it1 = 1
    /\ pts = <<>>
    /\ IdleMatch /\ IdleKpt /\ IdleErase /\ IdleCam /\ IdleTtc /\ IdleTtcLidar

NextLidarROI == LidarPointStep \/ LidarPointDegenerate \/ LidarReturn

SpecLidarROI == InitLidarROI /\ [][NextLidarROI]_vars

RECURSIVE OnlyEnclosedBy(_, _)
\* The lidar points 1..n whose pixel lies in the shrunk box of b and of no other box.
OnlyEnclosedBy(b, n) ==
    IF n = 0 THEN <<>>
    ELSE LET rest == OnlyEnclosedBy(b, n - 1)
             in == {c \in 1..Len(boundingBoxes) :
                       Contains(SmallerBox(boundingBoxes[c].roi), pts[n])}
         IN  IF in = {b} THEN Append(rest, lidarPoints[n]) ELSE rest

\* C1: after clusterLidarWithROI, a region holds exactly the points (in order)
\* whose projected pixel lies in its shrunk rectangle and in no other region's;
\* a point in zero or in several shrunk rectangles is in no region.
C1_OnlyEnclosingRegion ==
    pc \in {"lidar", "done"} =>
        \A b \in 1..Len(boundingBoxes) :
            boundingBoxes[b].lidarPoints = OnlyEnclosedBy(b, Len(pts))

\* A finished run with a point in the overlap of two shrunk rectangles (in no
\* region), a point in one region only, and a point outside every rectangle.
C1_Witness ==
    /\ pc = "done"
    /\ \E i \in 1..Len(pts) :
         Cardinality({c \in 1..Len(boundingBoxes) :
             Contains(SmallerBox(boundingBoxes[c].roi), pts[i])}) >= 2
    /\ \E b \in 1..Len(boundingBoxes) : boundingBoxes[b].lidarPoints # <<>>


(***************************************************************************)
(* Keypoints and rectangle membership.  A keypoint is cv::KeyPoint::pt, a  *)
(* Point2f, in half pixels.  cv::Rect::contains takes a cv::Point (int):   *)
(* the Point2f is converted with saturate_cast<int>, which is cvRound, the *)
(* rounding to the nearest integer, a half going to the even neighbour.    *)
(***************************************************************************)
KeyPt(hx, hy) == [x |-> hx, y |-> hy]

CvRound(h) ==
    LET k == h \div 2
    IN  IF h % 2 = 0 THEN k
        ELSE IF k % 2 = 0 THEN k ELSE k + 1

ToPoint(kp) == [x |-> CvRound(kp.x), y |-> CvRound(kp.y)]

\* roi.contains(keypoint.pt)
RoiContains(roi, kp) == Contains(roi, ToPoint(kp))

DMatch(q, t) == [queryIdx |-> q, trainIdx |-> t]

\* std::map<int,int>: a function from its keys; operator[] assignment.
MapPut(m, k, v) == [j \in DOMAIN m \cup {k} |-> IF j = k THEN v ELSE m[j]]

(***************************************************************************)
(* matchBoundingBoxes (lines 313-358).                                     *)
(***************************************************************************)
MaxBBMatches == 3
MaxCurrBoxes == 2

RECURSIVE VoteMatches(_, _, _, _)
\* Lines 326-346: the loop over the matches, for one previous and one current
\* box, on the vote table m; n matches are still to be read.
VoteMatches(m, prevBox, currBox, n) ==
    IF n = 0 THEN m
    ELSE LET before == VoteMatches(m, prevBox, currBox, n - 1)
             match == matches[n]
         IN  IF /\ RoiContains(prevBox.roi, prevFrame.keypoints[match.queryIdx + 1])
                /\ RoiContains(currBox.roi, currFrame.keypoints[match.trainIdx + 1])
             THEN IF currBox.boxID \notin DOMAIN before
                  THEN MapPut(before, currBox.boxID, 1)
                  ELSE MapPut(before, currBox.boxID, before[currBox.boxID] + 1)
             ELSE before

RECURSIVE VoteTable(_, _)
\* Lines 323-347: the vote table of a previous box after the first n current boxes.
VoteTable(prevBox, n) ==
    IF n = 0 THEN <<>>
    ELSE VoteMatches(VoteTable(prevBox, n - 1), prevBox,
                     currFrame.boundingBoxes[n], Len(matches))

\* The keys of a map in the order std::map iterates them: ascending.
RECURSIVE KeysAscending(_)
KeysAscending(S) ==
    IF S = {} THEN <<>>
    ELSE LET k == CHOOSE k \in S : \A j \in S : k <= j
         IN  <<k>> \o KeysAscending(S \ {k})

RECURSIVE MaxFrom(_, _, _, _)
MaxFrom(m, keys, n, laterWins) ==
    IF n = 1 THEN keys[1]
    ELSE LET best == MaxFrom(m, keys, n - 1, laterWins)
         IN  IF m[best] < m[keys[n]] \/ (laterWins /\ m[best] = m[keys[n]])
             THEN keys[n] ELSE best

\* A plausible slip: the comparison a.second <= b.second, the last maximum winning.
MaxElement_lastWins(m) ==
    LET keys == KeysAscending(DOMAIN m)
    IN  MaxFrom(m, keys, Len(keys), TRUE)

\* Line 349: std::max_element over a non-empty map with a.second < b.second: the
\* key of the first element, in the map's order, that no other exceeds.
MaxElement(m) ==
    LET keys == KeysAscending(DOMAIN m)
    IN  MaxFrom(m, keys, Len(keys), FALSE)

\* What bestMatch->first may read when bestMatch is m.end(): 0 is the node count
\* that follows the header node of an empty map; -1 stands for any other word.
GarbageIDs == {0, -1}

\* Lines 321-350, one iteration of the loop over the previous boxes, the vote
\* table holding at least one entry.
MatchBoxVoted ==
    /\ pc = "match"
    /\ it1 <= Len(prevFrame.boundingBoxes)
    /\ LET prevBox == prevFrame.boundingBoxes[it1]
           m == VoteTable(prevBox, Len(currFrame.boundingBoxes))
       IN  /\ DOMAIN m # {}
           /\ bbBestMatches' = MapPut(bbBestMatches, prevBox.boxID, MaxElement(m))
    /\ it1' = it1 + 1
    /\ UNCHANGED <<pc, boundingBoxes, matches, prevFrame, currFrame>>
    /\ UNCHANGED <<roiVars, kptVars, eraseVars, camVars, ttcVars, ttcLidarVars>>

\* The same with an empty vote table: max_element returns m.end(), and line 350
\* dereferences it (undefined): a word that is no element of the map is stored.
MatchBoxNoVoteGarbage ==
    /\ pc = "match"
    /\ it1 <= Len(prevFrame.boundingBoxes)
    /\ LET prevBox == prevFrame.boundingBoxes[it1]
           m == VoteTable(prevBox, Len(currFrame.boundingBoxes))
       IN  /\ DOMAIN m = {}
           /\ \E g \in GarbageIDs :
                bbBestMatches' = MapPut(bbBestMatches, prevBox.boxID, g)
    /\ it1' = it1 + 1
    /\ UNCHANGED <<pc, boundingBoxes, matches, prevFrame, currFrame>>
    /\ UNCHANGED <<roiVars, kptVars, eraseVars, camVars, ttcVars, ttcLidarVars>>

\* The same, the dereference of m.end() faulting: the process ends.
MatchBoxNoVoteCrash ==
    /\ pc = "match"
    /\ it1 <= Len(prevFrame.boundingBoxes)
    /\ LET prevBox == prevFrame.boundingBoxes[it1]
           m == VoteTable(prevBox, Len(currFrame.boundingBoxes))
       IN  DOMAIN m = {}
    /\ pc' = "crashed"
    /\ UNCHANGED <<boundingBoxes, it1, matchVars>>
    /\ UNCHANGED <<roiVars, kptVars, eraseVars, camVars, ttcVars, ttcLidarVars>>

\* The loop over the previous boxes ends and the function returns.
MatchReturn ==
    /\ pc = "match"
    /\ it1 > Len(prevFrame.boundingBoxes)
    /\ pc' = "done"
    /\ UNCHANGED <<boundingBoxes, it1, matchVars>>
    /\ UNCHANGED <<roiVars, kptVars, eraseVars, camVars, ttcVars, ttcLidarVars>>

\* Keypoints on one image row: pixels 1, 3.5 (converted to 4), 5 and 15.
FrameKeypoints == <<KeyPt(2, 2), KeyPt(7, 2), KeyPt(10, 2), KeyPt(30, 2)>>

PrevRects == {Rect(0, 0, 4, 4), Rect(4, 0, 8, 4)}
CurrRects == {Rect(0, 0, 4, 4), Rect(4, 0, 8, 4), Rect(0, 0, 8, 4)}

BBMatchPool == {DMatch(0, 0), DMatch(0, 2), DMatch(1, 1), DMatch(3, 2)}

\* The bounding boxes of a frame with their boxIDs in ascending or in descending
\* order of position.
BoxListsAnyIDs(rects, n) ==
    BoxLists(rects, n) \cup
    {[i \in DOMAIN s |-> BoundingBox(Len(s) - i, s[i])] : s \in InjSeqUpTo(rects, n)}

InitMatchBB ==
    /\ pc = "match"
    /\ matches \in SeqUpTo(BBMatchPool, MaxBBMatches)
    /\ prevFrame \in [keypoints : {FrameKeypoints},
                      boundingBoxes : BoxListsAnyIDs(PrevRects, 2)]
    /\ currFrame \in [keypoints : {FrameKeypoints},
                      boundingBoxes : BoxListsAnyIDs(CurrRects, MaxCurrBoxes)]
    /\ bbBestMatches = <<>>
    /\ it1 = 1
    /\ boundingBoxes = <<>>
    /\ IdleRoi /\ IdleKpt /\ IdleErase /\ IdleCam /\ IdleTtc /\ IdleTtcLidar

NextMatchBB == MatchBoxVoted \/ MatchBoxNoVoteGarbage \/ MatchBoxNoVoteCrash \/ MatchReturn

SpecMatchBB == InitMatchBB /\ [][NextMatchBB]_vars

\* The number of matches with the previous keypoint in the rectangle of previous
\* box p and the current keypoint in the rectangle of current box c.
Votes(p, c) ==
    Cardinality({k \in 1..Len(matches) :
        /\ RoiContains(prevFrame.boundingBoxes[p].roi,
                       prevFrame.keypoints[matches[k].queryIdx + 1])
        /\ RoiContains(currFrame.boundingBoxes[c].roi,
                       currFrame.keypoints[matches[k].trainIdx + 1])})

HasVote(p) == \E c \in 1..Len(currFrame.boundingBoxes) : Votes(p, c) >= 1

\* The current boxes with the most votes of previous box p.
TopVoted(p) ==
    {c \in 1..Len(currFrame.boundingBoxes) :
        \A d \in 1..Len(currFrame.boundingBoxes) : Votes(p, d) <= Votes(p, c)}

\* C2: after matchBoundingBoxes returns, the keys of bbBestMatches are exactly
\* the IDs of the previous boxes that received a vote, and a previous box with
\* an empty vote table does not stop the function.
C2_KeysAreVotedBoxes ==
    /\ pc # "crashed"
    /\ pc = "done" =>
          DOMAIN bbBestMatches =
              {prevFrame.boundingBoxes[p].boxID :
                  p \in {q \in 1..Len(prevFrame.boundingBoxes) : HasVote(q)}}

\* C3 as stated: a previous box with a vote is mapped to a current box with the
\* most votes, the first of them in the order of currFrame.boundingBoxes.
C3_FirstInGivenOrder ==
    pc = "done" =>
        \A p \in 1..Len(prevFrame.boundingBoxes) :
            HasVote(p) =>
                LET first == CHOOSE c \in TopVoted(p) : \A d \in TopVoted(p) : c <= d
                IN  bbBestMatches[prevFrame.boundingBoxes[p].boxID]
                        = currFrame.boundingBoxes[first].boxID

\* C3 amended: a previous box with a vote is mapped to a current box with the
\* most votes, the one with the smallest boxID among them.
C3_SmallestIDAmongTop ==
    pc \in {"match", "done"} =>
        \A p \in 1..(it1 - 1) :
            HasVote(p) =>
                \E c \in TopVoted(p) :
                    /\ bbBestMatches[prevFrame.boundingBoxes[p].boxID]
                           = currFrame.boundingBoxes[c].boxID
                    /\ \A d \in TopVoted(p) :
                           currFrame.boundingBoxes[c].boxID
                               <= currFrame.boundingBoxes[d].boxID

\* A finished run in which a previous box has two current boxes tied for the
\* most votes, the second of them in the order of currFrame.boundingBoxes having
\* the smaller boxID, and is mapped to that second one.
C3_Witness ==
    /\ pc = "done"
    /\ \E p \in 1..Len(prevFrame.boundingBoxes) :
         /\ HasVote(p)
         /\ TopVoted(p) = {1, 2}
         /\ currFrame.boundingBoxes[2].boxID < currFrame.boundingBoxes[1].boxID
         /\ prevFrame.boundingBoxes[p].boxID \in DOMAIN bbBestMatches
         /\ bbBestMatches[prevFrame.boundingBoxes[p].boxID]
                = currFrame.boundingBoxes[2].boxID


(***************************************************************************)
(* clusterKptMatchesWithROI (lines 132-169), called by the caller for the  *)
(* bounding boxes of the current frame one after the other.                *)
(*                                                                         *)
(* boundingBox.kptMatches is a std::vector<cv::DMatch>: buf is its storage *)
(* (capacity() slots) and size its size().  A slot holds the position in   *)
(* kptMatches of the DMatch copied into it, or 0 when nothing was ever     *)
(* written to it.  A slot at or after size keeps what it last held.        *)
(***************************************************************************)
MaxKptMatches == 4

\* cv::norm of the difference of two Point2f whose distance is a whole number
\* of half pixels (the keypoints below are chosen so).
Norm(a, b) ==
    LET sq == (a.x - b.x) * (a.x - b.x) + (a.y - b.y) * (a.y - b.y)
    IN  CHOOSE d \in 0..(Abs(a.x - b.x) + Abs(a.y - b.y)) : d * d = sq

\* Lines 147-149 and 156-158: the distance between the keypoints of a match.
MatchDistance(match) ==
    Norm(kptsCurr[match.trainIdx + 1], kptsPrev[match.queryIdx + 1])

\* Lines 136-137: the current keypoint of the match lies in the box's roi.
InRoi(box, match) == RoiContains(box.roi, kptsCurr[match.trainIdx + 1])

\* std::vector::emplace_back: a full vector moves to storage twice as large
\* (one slot for an empty one), whose other slots were never written.
EmplaceBack(b, sz, v) ==
    IF sz < Len(b) THEN [b EXCEPT ![sz + 1] = v]
    ELSE [i \in 1..(IF Len(b) = 0 THEN 1 ELSE 2 * Len(b)) |->
             IF i <= sz THEN b[i] ELSE IF i = sz + 1 THEN v ELSE 0]

RECURSIVE Membership(_, _)
\* Lines 134-141: <<buf, size>> after the first n matches.
Membership(box, n) ==
    IF n = 0 THEN <<<<>>, 0>>
    ELSE LET before == Membership(box, n - 1)
         IN  IF InRoi(box, kptMatches[n])
             THEN <<EmplaceBack(before[1], before[2], n), before[2] + 1>>
             ELSE before

RECURSIVE SumDistances(_, _)
\* Lines 143-151: the sum of the distances of the first n elements.
SumDistances(b, n) ==
    IF n = 0 THEN 0
    ELSE SumDistances(b, n - 1) + MatchDistance(kptMatches[b[n]])

\* Line 159: distance >= mean * ratio, with mean = sum / n and ratio = 1.5.
\* With n = 0 the mean is 0 / 0, not a number, and the comparison is false.
IsOutlier(distance) ==
    /\ mean[2] # 0
    /\ 2 * mean[2] * distance >= 3 * mean[1]

\* std::vector::erase of the element at offset pos < size: the later elements
\* move down one slot; the slot of the last keeps its value.
EraseAt(b, sz, pos) ==
    [i \in 1..Len(b) |-> IF pos < i /\ i < sz THEN b[i + 1] ELSE b[i]]

\* Lines 134-153: the membership loop, the mean, and the erase loop's start.
KptMembership ==
    /\ pc = "kpt_call"
    /\ boxIdx <= Len(boundingBoxes)
    /\ LET filled == Membership(boundingBoxes[boxIdx], Len(kptMatches))
       IN  /\ buf' = filled[1]
           /\ size' = filled[2]
           /\ mean' = <<SumDistances(filled[1], filled[2]), filled[2]>>
    /\ it' = 0
    /\ reads' = <<>>
    /\ pc' = "kpt_erase"
    /\ UNCHANGED <<boundingBoxes, it1, boxIdx, kptVars>>
    /\ UNCHANGED <<roiVars, matchVars, camVars, ttcVars, ttcLidarVars>>

\* Lines 154-168, one iteration with the iterator before end().
KptEraseStep ==
    /\ pc = "kpt_erase"
    /\ it < size
    /\ reads' = Append(reads, <<it, size, buf[it + 1]>>)
    /\ IF IsOutlier(MatchDistance(kptMatches[buf[it + 1]]))
       THEN /\ buf' = EraseAt(buf, size, it)
            /\ size' = size - 1
            /\ it' = it
       ELSE /\ it' = it + 1
            /\ UNCHANGED <<buf, size>>
    /\ UNCHANGED <<pc, boundingBoxes, it1, boxIdx, mean, kptVars>>
    /\ UNCHANGED <<roiVars, matchVars, camVars, ttcVars, ttcLidarVars>>

\* The function returns: the box holds the first `n` slots of the storage.
ReturnBox(n) ==
    /\ boundingBoxes' = [boundingBoxes EXCEPT ![boxIdx].kptMatches =
                            [i \in 1..n |-> kptMatches[buf[i]]]]
    /\ boxIdx' = boxIdx + 1
    /\ pc' = "kpt_call"

\* erase(end()), undefined.  The elements "after" end() are moved, a move of
\* -1 elements: it faults (a memmove of a huge length), or moves nothing, and
\* then the size is decremented; at size 0 the end then precedes the begin.
\* The loop ends either way (it > end()).
EraseEnd(outcome) ==
    IF outcome = "crash" THEN pc' = "crashed" /\ UNCHANGED <<boundingBoxes, boxIdx>>
    ELSE IF size = 0 THEN pc' = "corrupt" /\ UNCHANGED <<boundingBoxes, boxIdx>>
    ELSE ReturnBox(size - 1)

\* Line 154 lets the iterator reach end() (it <= end()), and lines 156-158 read
\* *end().  Here the slot after the last element holds a DMatch written
\* earlier (the last one erased, or a copy of the last element), which is not
\* an outlier: the iterator moves past end() and the loop ends.
KptPastEndStaleKept ==
    /\ pc = "kpt_erase"
    /\ it = size /\ size < Len(buf) /\ buf[size + 1] # 0
    /\ ~IsOutlier(MatchDistance(kptMatches[buf[size + 1]]))
    /\ reads' = Append(reads, <<it, size, buf[size + 1]>>)
    /\ it' = it + 1
    /\ ReturnBox(size)
    /\ UNCHANGED <<it1, buf, size, mean, kptVars>>
    /\ UNCHANGED <<roiVars, matchVars, camVars, ttcVars, ttcLidarVars>>

\* The same, the stale DMatch being an outlier: line 161 is erase(end()).
KptPastEndStaleErased ==
    /\ pc = "kpt_erase"
    /\ it = size /\ size < Len(buf) /\ buf[size + 1] # 0
    /\ IsOutlier(MatchDistance(kptMatches[buf[size + 1]]))
    /\ reads' = Append(reads, <<it, size, buf[size + 1]>>)
    /\ \E outcome \in {"crash", "decrement"} : EraseEnd(outcome)
    /\ UNCHANGED <<it1, buf, size, mean, it, kptVars>>
    /\ UNCHANGED <<roiVars, matchVars, camVars, ttcVars, ttcLidarVars>>

\* The same, the slot after the last element never written, or outside the
\* storage: the indices read are any words.  kptsCurr.at() or kptsPrev.at()
\* throws (nothing catches it), or the distance computed is below the
\* threshold, or it is not.
KptPastEndGarbage ==
    /\ pc = "kpt_erase"
    /\ it = size /\ Len(buf) > 0
    /\ IF size = Len(buf) THEN TRUE ELSE buf[size + 1] = 0
    /\ reads' = Append(reads, <<it, size, 0>>)
    /\ \E outcome \in {"crash", "kept", "decrement"} :
         IF outcome = "kept" THEN ReturnBox(size) ELSE EraseEnd(outcome)
    /\ UNCHANGED <<it1, buf, size, mean, it, kptVars>>
    /\ UNCHANGED <<roiVars, matchVars, camVars, ttcVars, ttcLidarVars>>

\* The same with no match in the box: the vector has no storage, begin() and
\* end() are null, and line 156 reads through the null pointer.
KptPastEndNull ==
    /\ pc = "kpt_erase"
    /\ it = size /\ Len(buf) = 0
    /\ reads' = Append(reads, <<it, size, 0>>)
    /\ pc' = "crashed"
    /\ UNCHANGED <<boundingBoxes, it1, boxIdx, buf, size, mean, it, kptVars>>
    /\ UNCHANGED <<roiVars, matchVars, camVars, ttcVars, ttcLidarVars>>

\* The caller has called the function for every box.
KptAllBoxesDone ==
    /\ pc = "kpt_call"
    /\ boxIdx > Len(boundingBoxes)
    /\ pc' = "done"
    /\ UNCHANGED <<boundingBoxes, it1, kptVars, eraseVars>>
    /\ UNCHANGED <<roiVars, matchVars, camVars, ttcVars, ttcLidarVars>>

\* Current keypoints at pixels (2,2), (6,2), (10,2), (3,3); the first box
\* holds the first, second and fourth, the second box the second and third.
KptCurrList == <<KeyPt(4, 4), KeyPt(12, 4), KeyPt(20, 4), KeyPt(6, 6)>>
KptPrevList ==
    <<KeyPt(2, 4), KeyPt(12, 6), KeyPt(20, 4), KeyPt(6, 206), KeyPt(12, 14), KeyPt(4, 4)>>

KptRects == {Rect(0, 0, 8, 8), Rect(4, 0, 8, 8)}

\* Matches of distance 2, 2, 0, 200, 10 and 0 half pixels.
KptMatchPool ==
    {DMatch(0, 0), DMatch(1, 1), DMatch(2, 2), DMatch(3, 3), DMatch(4, 1), DMatch(5, 0)}

InitKptROI ==
    /\ pc = "kpt_call"
    /\ boundingBoxes \in BoxLists(KptRects, 2)
    /\ kptsPrev = KptPrevList
    /\ kptsCurr = KptCurrList
    /\ kptMatches \in InjSeqUpTo(KptMatchPool, MaxKptMatches)
    /\ boxIdx = 1 /\ buf = <<>> /\ size = 0 /\ mean = <<0, 0>> /\ it = 0
    /\ reads = <<>>
    /\ it1 = 0
    /\ IdleRoi /\ IdleMatch /\ IdleCam /\ IdleTtc /\ IdleTtcLidar

NextKptROI ==
    \/ KptMembership
    \/ KptEraseStep
    \/ KptPastEndStaleKept
    \/ KptPastEndStaleErased
    \/ KptPastEndGarbage
    \/ KptPastEndNull
    \/ KptAllBoxesDone

SpecKptROI == InitKptROI /\ [][NextKptROI]_vars

\* The positions in kptMatches of the matches whose current keypoint lies in
\* the rectangle of box b.
Members(b) ==
    {k \in 1..Len(kptMatches) :
        RoiContains(boundingBoxes[b].roi, kptsCurr[kptMatches[k].trainIdx + 1])}

RECURSIVE SumOver(_)
SumOver(K) ==
    IF K = {} THEN 0
    ELSE LET k == CHOOSE k \in K : TRUE
         IN  MatchDistance(kptMatches[k]) + SumOver(K \ {k})

\* The members of box b whose distance is strictly below 1.5 times the mean
\* distance of the members: 2 * |M| * d < 3 * sum.
Inliers(b) ==
    {k \in Members(b) :
        2 * Cardinality(Members(b)) * MatchDistance(kptMatches[k]) < 3 * SumOver(Members(b))}

\* C4: after clusterKptMatchesWithROI has run on a box, the box holds exactly
\* the matches with the current keypoint in its rectangle and a distance
\* strictly below 1.5 times the mean over the members, in their original order.
C4_ExactlyTheInliers ==
    /\ pc \notin {"crashed", "corrupt"}
    /\ \A b \in 1..Len(boundingBoxes) :
          b < boxIdx =>
              boundingBoxes[b].kptMatches =
                  SelectSeq(kptMatches,
                      LAMBDA m : \E k \in Inliers(b) : kptMatches[k] = m)

\* C5: the function having run for every box, each match is in the match
\* collection of at most one box.
C5_AtMostOneBox ==
    pc = "done" =>
        \A k \in 1..Len(kptMatches) :
            Cardinality({b \in 1..Len(boundingBoxes) :
                \E i \in 1..Len(boundingBoxes[b].kptMatches) :
                    boundingBoxes[b].kptMatches[i] = kptMatches[k]}) <= 1

\* C8: the erase loop reads only elements at offsets below the current size,
\* examines each member exactly once, and ends when the iterator is at the end.
C8_EraseLoopStable ==
    /\ \A r \in 1..Len(reads) : reads[r][1] < reads[r][2]
    /\ \A r, q \in 1..Len(reads) : r # q => reads[r][3] # reads[q][3]
    /\ pc \notin {"crashed", "corrupt"}
    /\ (pc = "kpt_call" /\ boxIdx > 1) =>
          {reads[r][3] : r \in 1..Len(reads)} = Members(boxIdx - 1)


(***************************************************************************)
(* computeTTCCamera (lines 173-228).  kptMatches is passed by value.       *)
(* A double that is a quotient is the reduced fraction <<num, den>>,       *)
(* den > 0.                                                                *)
(***************************************************************************)
MaxCamMatches == 4

RECURSIVE Gcd(_, _)
Gcd(a, b) == IF b = 0 THEN a ELSE Gcd(b, a % b)

\* The fraction n / d, d # 0, reduced and with a positive denominator.
Frac(n, d) ==
    LET g == Gcd(Abs(n), Abs(d))
    IN  IF d > 0 THEN <<n \div g, d \div g>> ELSE <<(-n) \div g, (-d) \div g>>

FracLess(a, b) == a[1] * b[2] < b[1] * a[2]

\* (a + b) / 2.0
FracMid(a, b) == Frac(a[1] * b[2] + b[1] * a[2], 2 * a[2] * b[2])

\* double minDist = 100.0 (pixels)
MinDist == 100

\* Lines 188-203: the inner loop body on the matches at offsets o and i: the
\* distance ratios after it.  distPrev > epsilon is distPrev > 0 for distances
\* that are whole numbers of half pixels.
InnerBody(ratios, o, i) ==
    LET outer == kptMatches[o + 1]
        inner == kptMatches[i + 1]
        distCurr == Norm(kptsCurr[outer.trainIdx + 1], kptsCurr[inner.trainIdx + 1])
        distPrev == Norm(kptsPrev[outer.queryIdx + 1], kptsPrev[inner.queryIdx + 1])
    IN  IF distPrev > 0 /\ distCurr >= 2 * MinDist
        THEN Append(ratios, Frac(distCurr, distPrev))
        ELSE ratios

RECURSIVE Insert(_, _)
Insert(sorted, r) ==
    IF sorted = <<>> THEN <<r>>
    ELSE IF FracLess(r, sorted[1]) THEN <<r>> \o sorted
    ELSE <<sorted[1]>> \o Insert(Tail(sorted), r)

RECURSIVE Sort(_)
\* Line 216: std::sort, ascending.
Sort(ratios) ==
    IF ratios = <<>> THEN <<>>
    ELSE Insert(Sort(SubSeq(ratios, 1, Len(ratios) - 1)), ratios[Len(ratios)])

\* Line 217: long medianIdx = floor(distRatios.size() / 2)
MedianIdx(n) == n \div 2

\* Lines 219-227: TTC from the median distance ratio.
TTCFromRatio(median) ==
    IF median[1] # median[2]
    THEN LET q == Frac(-median[2], frameRate * (median[2] - median[1]))
         IN  Double("value", q[1], q[2])
    ELSE Special("inf")

\* Lines 178-205, one run of the inner loop body.  The outer loop runs while
\* it1 != end() - 1, the inner loop from begin() + 1 to end().
CamPair ==
    /\ pc = "cam_loop"
    /\ Len(kptMatches) > 0
    /\ it1 # Len(kptMatches) - 1
    /\ it2 < Len(kptMatches)
    /\ distRatios' = InnerBody(distRatios, it1, it2)
    /\ pairs' = Append(pairs, <<it1, it2>>)
    /\ IF it2 + 1 = Len(kptMatches)
       THEN it1' = it1 + 1 /\ it2' = 1
       ELSE it1' = it1 /\ it2' = it2 + 1
    /\ UNCHANGED <<pc, boundingBoxes, medianDistRatio, ttcVars, kptVars>>
    /\ UNCHANGED <<roiVars, matchVars, eraseVars, ttcLidarVars>>

\* The same with one match: the inner loop (from begin() + 1 = end()) runs no
\* body; with one match it1 = end() - 1 at once and this step is not taken.
\* With no match at all, end() - 1 precedes begin(): the outer loop's test
\* it1 != end() - 1 holds, and line 182 reads *it1 with it1 = begin() = end(),
\* the null pointer of a vector copied from an empty one.
CamEmptyCrash ==
    /\ pc = "cam_loop"
    /\ Len(kptMatches) = 0
    /\ pc' = "crashed"
    /\ UNCHANGED <<boundingBoxes, it1, camVars, ttcVars, kptVars>>
    /\ UNCHANGED <<roiVars, matchVars, eraseVars, ttcLidarVars>>

\* Lines 208-212: no distance ratio.
CamNoRatio ==
    /\ pc = "cam_loop"
    /\ Len(kptMatches) > 0 /\ it1 = Len(kptMatches) - 1
    /\ distRatios = <<>>
    /\ TTC' = Special("nan")
    /\ pc' = "done"
    /\ UNCHANGED <<boundingBoxes, it1, camVars, frameRate, kptVars>>
    /\ UNCHANGED <<roiVars, matchVars, eraseVars, ttcLidarVars>>

\* Lines 216-227 with two or more ratios: the parity tested is medianIdx's.
CamMedian ==
    /\ pc = "cam_loop"
    /\ Len(kptMatches) > 0 /\ it1 = Len(kptMatches) - 1
    /\ Len(distRatios) >= 2
    /\ LET sorted == Sort(distRatios)
           medianIdx == MedianIdx(Len(sorted))
           median == IF medianIdx % 2 = 0
                     THEN FracMid(sorted[medianIdx - 1 + 1], sorted[medianIdx + 1])
                     ELSE sorted[medianIdx + 1]
       IN  /\ distRatios' = sorted
           /\ medianDistRatio' = median
           /\ TTC' = TTCFromRatio(median)
    /\ pc' = "done"
    /\ UNCHANGED <<boundingBoxes, it1, it2, pairs, frameRate, kptVars>>
    /\ UNCHANGED <<roiVars, matchVars, eraseVars, ttcLidarVars>>

\* What the double before the first element of the vector's storage may hold:
\* 0 stands for the allocator's word there (a denormal), 7 for any other value.
GarbageRatios == {<<0, 1>>, <<7, 1>>}

\* Lines 216-227 with one ratio: medianIdx = 0 is even, and line 218 reads
\* distRatios[-1], outside the vector (undefined).
CamMedianOutside ==
    /\ pc = "cam_loop"
    /\ Len(kptMatches) > 0 /\ it1 = Len(kptMatches) - 1
    /\ Len(distRatios) = 1
    /\ \E g \in GarbageRatios :
         LET median == FracMid(g, distRatios[1])
         IN  /\ medianDistRatio' = median
             /\ TTC' = TTCFromRatio(median)
    /\ pc' = "done"
    /\ UNCHANGED <<boundingBoxes, it1, it2, distRatios, pairs, frameRate, kptVars>>
    /\ UNCHANGED <<roiVars, matchVars, eraseVars, ttcLidarVars>>

\* Keypoints on one image row, at pixels 0, 100, 200, 250 (previous frame)
\* and 0, 100, 220, 300 (current frame); a fifth keypoint that stays at 0 in
\* the previous frame and moves to pixel 120.
CamPrevList == <<KeyPt(0, 0), KeyPt(200, 0), KeyPt(400, 0), KeyPt(500, 0), KeyPt(0, 0)>>
CamCurrList == <<KeyPt(0, 0), KeyPt(200, 0), KeyPt(440, 0), KeyPt(600, 0), KeyPt(240, 0)>>

CamMatchPool == {DMatch(i, i) : i \in 0..4}

InitTTCCamera ==
    /\ pc = "cam_loop"
    /\ kptsPrev = CamPrevList
    /\ kptsCurr = CamCurrList
    /\ kptMatches \in InjSeqUpTo(CamMatchPool, MaxCamMatches)
    /\ frameRate \in {10}
    /\ TTC = Special("unset")
    /\ it1 = 0 /\ it2 = 1
    /\ distRatios = <<>> /\ pairs = <<>> /\ medianDistRatio = <<0, 0>>
    /\ boundingBoxes = <<>>
    /\ IdleRoi /\ IdleMatch /\ IdleErase /\ IdleTtcLidar

NextTTCCamera == CamPair \/ CamEmptyCrash \/ CamNoRatio \/ CamMedian \/ CamMedianOutside

SpecTTCCamera == InitTTCCamera /\ [][NextTTCCamera]_vars

\* C6: computeTTCCamera sets TTC to not-a-number whenever no pair survives the
\* thresholds, for every number of matches, zero and one included, and reads
\* nothing outside the match collection (a read outside it is the fault that
\* ends the run).
C6_NaNWhenNoRatio ==
    /\ pc # "crashed"
    /\ (pc = "done" /\ distRatios = <<>>) => TTC = Special("nan")

\* The median of a sorted list: the central value of an odd number of values,
\* the mean of the two central values of an even number.
TrueMedian(sorted) ==
    LET n == Len(sorted)
    IN  IF n % 2 = 1 THEN sorted[(n - 1) \div 2 + 1]
        ELSE FracMid(sorted[n \div 2 - 1 + 1], sorted[n \div 2 + 1])

\* C9: the value used as the median ratio is the median of the sorted ratios,
\* for every number n >= 1 of ratios.
C9_TrueMedian ==
    (pc = "done" /\ Len(distRatios) >= 1) =>
        medianDistRatio = TrueMedian(Sort(distRatios))

\* The number of entries of pairs on the matches at offsets i and j, in
\* either order.
TimesConsidered(i, j) ==
    Cardinality({k \in 1..Len(pairs) : pairs[k] \in {<<i, j>>, <<j, i>>}})

\* C10: with n >= 2 matches, the pairs considered are the unordered pairs of
\* distinct matches, each once: no match with itself, none twice, none left out.
C10_EachUnorderedPairOnce ==
    (pc = "done" /\ Len(kptMatches) >= 2) =>
        \A i, j \in 0..(Len(kptMatches) - 1) :
            TimesConsidered(i, j) = IF i = j THEN 0 ELSE 1


(***************************************************************************)
(* clustering (lines 230-269) and computeTTCLidar (lines 271-311).         *)
(* Coordinates are whole numbers of 1/64 m.  minXPrev and minXCurr are     *)
(* fractions <<num, den>> in metres: <<u, 64>> for a coordinate u, and     *)
(* <<1000000000, 1>> for the initial value 1e9.                            *)
(***************************************************************************)
MaxOutliers == 1

\* Line 283-284: the arguments 30 and 25000 of clustering.
MinClusterSize == 30
MaxClusterSize == 25000

\* Lines 279-280: 1e9
InitialMinX == 1000000000

LidarPoint(x, y, z) == [x |-> x, y |-> y, z |-> z]

RECURSIVE RoundTo24Bits(_, _)
\* u * scale rounded to a float's 24 bit significand, a half going to even.
RoundTo24Bits(u, scale) ==
    IF u < 16777216 THEN u * scale
    ELSE LET h == u \div 2
             r == IF u % 2 = 0 THEN h
                  ELSE IF h % 2 = 0 THEN h ELSE h + 1
         IN  RoundTo24Bits(r, 2 * scale)

\* Line 236: (float)p.x of a coordinate in 1/64 m: exact below 2^24 units.
ToFloat(u) == IF u < 0 THEN -RoundTo24Bits(-u, 1) ELSE RoundTo24Bits(u, 1)

\* Lines 233-237: the cloud of pcl::PointXYZ.
ToCloud(points) ==
    [i \in 1..Len(points) |->
        LidarPoint(ToFloat(points[i].x), ToFloat(points[i].y), ToFloat(points[i].z))]

SquaredDistance(a, b) ==
    (a.x - b.x) * (a.x - b.x) + (a.y - b.y) * (a.y - b.y) + (a.z - b.z) * (a.z - b.z)

\* The radius search of the extraction, with clusterTolerance = 0.05 m, which is
\* 3.2 units: the squared distance (a whole number) is below 10.24 = 256 / 25.
WithinTolerance(a, b) == 25 * SquaredDistance(a, b) < 256

\* A plausible slip: a cluster must be larger than the minimum size.
ClusterKept_exclusive(n) == MinClusterSize < n /\ n <= MaxClusterSize

\* Lines 247-248: the size bounds of the extraction, both inclusive.
ClusterKept(n) == MinClusterSize <= n /\ n <= MaxClusterSize

\* The neighbours of point q that the radius search returns and that are not
\* processed yet, in the order of their indices.
NewNeighbours(q) ==
    SelectSeq([j \in 1..Len(cloud) |-> j],
              LAMBDA j : j \notin processed /\ WithinTolerance(cloud[q], cloud[j]))

RECURSIVE Flatten(_, _)
\* Lines 253-266: the points of the first n clusters, one cluster after the
\* other (no point when there is no cluster).
Flatten(indices, n) ==
    IF n = 0 THEN <<>>
    ELSE Flatten(indices, n - 1) \o [k \in 1..Len(indices[n]) |-> cloud[indices[n][k]]]

\* Lines 233-250: the cloud is built and the extraction starts.
StartClustering(points) ==
    /\ cloud' = ToCloud(points)
    /\ seed' = 1
    /\ processed' = {}
    /\ seedQueue' = <<>>
    /\ sqIdx' = 0
    /\ clusterIndices' = <<>>

\* Line 251, ec.extract: a point already in a cluster is passed over.
ExtractSkip ==
    /\ pc \in {"extract_prev", "extract_curr"}
    /\ sqIdx = 0
    /\ seed <= Len(cloud) /\ seed \in processed
    /\ seed' = seed + 1
    /\ UNCHANGED <<pc, cloud, processed, seedQueue, sqIdx, clusterIndices>>
    /\ UNCHANGED <<boundingBoxes, it1, lidarInput, clusterPrevPts, clusterCurrPts,
                   minXPrev, minXCurr, ttcVars>>
    /\ UNCHANGED <<roiVars, matchVars, kptVars, eraseVars, camVars>>

\* ec.extract: a point in no cluster yet starts a queue.
ExtractSeed ==
    /\ pc \in {"extract_prev", "extract_curr"}
    /\ sqIdx = 0
    /\ seed <= Len(cloud) /\ seed \notin processed
    /\ seedQueue' = <<seed>>
    /\ sqIdx' = 1
    /\ processed' = processed \cup {seed}
    /\ UNCHANGED <<pc, cloud, seed, clusterIndices>>
    /\ UNCHANGED <<boundingBoxes, it1, lidarInput, clusterPrevPts, clusterCurrPts,
                   minXPrev, minXCurr, ttcVars>>
    /\ UNCHANGED <<roiVars, matchVars, kptVars, eraseVars, camVars>>

\* ec.extract: the neighbours of the next queued point that are not processed
\* are queued.
ExtractGrow ==
    /\ pc \in {"extract_prev", "extract_curr"}
    /\ sqIdx >= 1 /\ sqIdx <= Len(seedQueue)
    /\ LET nn == NewNeighbours(seedQueue[sqIdx])
       IN  /\ seedQueue' = seedQueue \o nn
           /\ processed' = processed \cup {nn[k] : k \in 1..Len(nn)}
    /\ sqIdx' = sqIdx + 1
    /\ UNCHANGED <<pc, cloud, seed, clusterIndices>>
    /\ UNCHANGED <<boundingBoxes, it1, lidarInput, clusterPrevPts, clusterCurrPts,
                   minXPrev, minXCurr, ttcVars>>
    /\ UNCHANGED <<roiVars, matchVars, kptVars, eraseVars, camVars>>

\* ec.extract: the queue is exhausted; it is a cluster (its indices sorted)
\* when its size is within the bounds.
ExtractClose ==
    /\ pc \in {"extract_prev", "extract_curr"}
    /\ sqIdx >= 1 /\ sqIdx > Len(seedQueue)
    /\ clusterIndices' =
          IF ClusterKept(Len(seedQueue))
          THEN Append(clusterIndices,
                   SelectSeq([j \in 1..Len(cloud) |-> j],
                       LAMBDA j : \E k \in 1..Len(seedQueue) : seedQueue[k] = j))
          ELSE clusterIndices
    /\ seedQueue' = <<>>
    /\ sqIdx' = 0
    /\ seed' = seed + 1
    /\ UNCHANGED <<pc, cloud, processed>>
    /\ UNCHANGED <<boundingBoxes, it1, lidarInput, clusterPrevPts, clusterCurrPts,
                   minXPrev, minXCurr, ttcVars>>
    /\ UNCHANGED <<roiVars, matchVars, kptVars, eraseVars, camVars>>

\* a > b for two fractions with positive denominators: by their whole parts,
\* then by the remainders.
FracGreater(a, b) ==
    LET qa == a[1] \div a[2]
        qb == b[1] \div b[2]
    IN  IF qa # qb THEN qa > qb
        ELSE (a[1] % a[2]) * b[2] > (b[1] % b[2]) * a[2]

\* Lines 289 and 297: fabs(lidarPt.y) < laneWidht / 2.0, 2.0 m being 128 units.
InLane(pt) == Abs(pt.y) < 128

\* Lines 289-292 and 297-300: the body of a loop over the cluster points, on
\* the point lidarPt and the minimum so far.
MinX(minX, lidarPt) ==
    IF InLane(lidarPt) /\ FracGreater(minX, <<lidarPt.x, 64>>)
    THEN <<lidarPt.x, 64>> ELSE minX

\* Line 304: curr / ((prev - curr) / dt) with dt = 1.0 / frameRate.  A division
\* by zero gives an infinity, or not-a-number for 0 / 0.  With one operand the
\* initial 1e9 and the other a coordinate of u units, the quotient is kept
\* unevaluated (its terms exceed the integers of the model):
\* "1e9/((u/64-1e9)*b)" or "(u/64)/((1e9-u/64)*b)", with a = u and b = rate.
Quotient(curr, prev, rate) ==
    IF curr = prev
    THEN IF curr[1] = 0 THEN Special("nan")
         ELSE IF curr[1] > 0 THEN Special("inf") ELSE Special("-inf")
    ELSE IF curr[2] = prev[2]
    THEN LET q == Frac(curr[1], (prev[1] - curr[1]) * rate)
         IN  Double("value", q[1], q[2])
    ELSE IF curr[2] = 1
    THEN Double("1e9/((u/64-1e9)*b)", prev[1], rate)
    ELSE Double("(u/64)/((1e9-u/64)*b)", curr[1], rate)

\* Lines 274-283: the initial minima, and clustering is called on the
\* previous frame's points.
LidarStart ==
    /\ pc = "ttc_start"
    /\ minXPrev' = <<InitialMinX, 1>>
    /\ minXCurr' = <<InitialMinX, 1>>
    /\ StartClustering(lidarPointsPrev)
    /\ pc' = "extract_prev"
    /\ UNCHANGED <<boundingBoxes, it1, lidarInput, clusterPrevPts, clusterCurrPts, ttcVars>>
    /\ UNCHANGED <<roiVars, matchVars, kptVars, eraseVars, camVars>>

\* Lines 253-268 and 283-284: clustering returns the previous frame's
\* clusters, and is called on the current frame's points.
ClusteringReturnPrev ==
    /\ pc = "extract_prev"
    /\ sqIdx = 0 /\ seed > Len(cloud)
    /\ clusterPrevPts' = Flatten(clusterIndices, Len(clusterIndices))
    /\ StartClustering(lidarPointsCurr)
    /\ pc' = "extract_curr"
    /\ UNCHANGED <<boundingBoxes, it1, lidarInput, clusterCurrPts, minXPrev, minXCurr, ttcVars>>
    /\ UNCHANGED <<roiVars, matchVars, kptVars, eraseVars, camVars>>

\* Lines 253-268 and 284: clustering returns the current frame's clusters.
ClusteringReturnCurr ==
    /\ pc = "extract_curr"
    /\ sqIdx = 0 /\ seed > Len(cloud)
    /\ clusterCurrPts' = Flatten(clusterIndices, Len(clusterIndices))
    /\ pc' = "ttc_prev"
    /\ it1' = 1
    /\ UNCHANGED <<boundingBoxes, clusterVars, lidarInput, clusterPrevPts,
                   minXPrev, minXCurr, ttcVars>>
    /\ UNCHANGED <<roiVars, matchVars, kptVars, eraseVars, camVars>>

\* Lines 287-293, one iteration.
LidarMinPrev ==
    /\ pc = "ttc_prev"
    /\ it1 <= Len(clusterPrevPts)
    /\ minXPrev' = MinX(minXPrev, clusterPrevPts[it1])
    /\ it1' = it1 + 1
    /\ UNCHANGED <<pc, boundingBoxes, clusterVars, lidarInput,
                   clusterPrevPts, clusterCurrPts, minXCurr, ttcVars>>
    /\ UNCHANGED <<roiVars, matchVars, kptVars, eraseVars, camVars>>

\* Lines 287-295: the loop over the previous cluster points ends.
LidarMinPrevEnd ==
    /\ pc = "ttc_prev"
    /\ it1 > Len(clusterPrevPts)
    /\ pc' = "ttc_curr"
    /\ it1' = 1
    /\ UNCHANGED <<boundingBoxes, ttcLidarVars, ttcVars>>
    /\ UNCHANGED <<roiVars, matchVars, kptVars, eraseVars, camVars>>

\* Lines 295-301, one iteration.
LidarMinCurr ==
    /\ pc = "ttc_curr"
    /\ it1 <= Len(clusterCurrPts)
    /\ minXCurr' = MinX(minXCurr, clusterCurrPts[it1])
    /\ it1' = it1 + 1
    /\ UNCHANGED <<pc, boundingBoxes, clusterVars, lidarInput,
                   clusterPrevPts, clusterCurrPts, minXPrev, ttcVars>>
    /\ UNCHANGED <<roiVars, matchVars, kptVars, eraseVars, camVars>>

\* Lines 295-304: the loop over the current cluster points ends, and the TTC
\* is computed.
LidarTTC ==
    /\ pc = "ttc_curr"
    /\ it1 > Len(clusterCurrPts)
    /\ TTC' = Quotient(minXCurr, minXPrev, frameRate)
    /\ pc' = "done"
    /\ UNCHANGED <<boundingBoxes, it1, frameRate, ttcLidarVars>>
    /\ UNCHANGED <<roiVars, matchVars, kptVars, eraseVars, camVars>>

\* n points on a line along x, `step` units apart, from x0, at lateral offset y.
Chain(x0, y, n, step) == [k \in 1..n |-> LidarPoint(x0 + (k - 1) * step, y, 0)]

\* k stray points, 32 units apart, nearer than x0 by at least 32 units.
Strays(x0, y, k) == [j \in 1..k |-> LidarPoint(x0 - 32 * j, y, 0)]

\* The point collections of a box: a chain of 3, 29 or 30 points 1 or 4 units
\* apart (0.016 m and 0.0625 m), in the lane or on its edge (y = 2.0 m), with
\* stray points in the lane before or after it.
Clouds(x0) ==
    {Chain(x0, 0, n, 1) \o Strays(x0, 0, k) :
        n \in {3, MinClusterSize - 1, MinClusterSize}, k \in 0..MaxOutliers}
    \cup {Chain(x0, 0, MinClusterSize, 4) \o Strays(x0, 0, k) : k \in 0..MaxOutliers}
    \cup {Chain(x0, 128, MinClusterSize, 1) \o Strays(x0, 0, k) : k \in 0..MaxOutliers}
    \cup {Strays(x0, 0, k) \o Chain(x0, 0, MinClusterSize, 1) : k \in 1..MaxOutliers}

InitTTCLidar ==
    /\ pc = "ttc_start"
    /\ IdleCluster
    /\ lidarPointsPrev \in Clouds(640)
    /\ lidarPointsCurr \in Clouds(576)
    /\ frameRate \in {10}
    /\ TTC = Special("unset")
    /\ clusterPrevPts = <<>> /\ clusterCurrPts = <<>>
    /\ minXPrev = 0 /\ minXCurr = 0
    /\ boundingBoxes = <<>> /\ it1 = 0
    /\ IdleRoi /\ IdleMatch /\ IdleKpt /\ IdleErase /\ IdleCam

NextTTCLidar ==
    \/ LidarStart
    \/ ExtractSkip
    \/ ExtractSeed
    \/ ExtractGrow
    \/ ExtractClose
    \/ ClusteringReturnPrev
    \/ ClusteringReturnCurr
    \/ LidarMinPrev
    \/ LidarMinPrevEnd
    \/ LidarMinCurr
    \/ LidarTTC

SpecTTCLidar == InitTTCLidar /\ [][NextTTCLidar]_vars

RECURSIVE Reachable(_, _)
\* The points of the cloud linked to a point of S by a chain of points in
\* which each is within the tolerance of the next.
Reachable(points, S) ==
    LET T == S \cup {j \in 1..Len(points) :
                 \E i \in S : 25 * SquaredDistance(points[i], points[j]) < 256}
    IN  IF T = S THEN S ELSE Reachable(points, T)

\* The x (in units) of the in-lane points of the collection that lie in a
\* group of linked points of 30 to 25000 points.
SurvivingInLaneX(points) ==
    {points[i].x : i \in {j \in 1..Len(points) :
        /\ Abs(points[j].y) < 128
        /\ LET group == Cardinality(Reachable(points, {j}))
           IN  group >= 30 /\ group <= 25000}}

\* The x of all the in-lane points supplied.
InLaneX(points) == {points[i].x : i \in {j \in 1..Len(points) : Abs(points[j].y) < 128}}

\* The least element of a set of coordinates as a fraction in metres, 1e9 for
\* the empty set.
LeastOr1e9(X) ==
    IF X = {} THEN <<1000000000, 1>>
    ELSE <<CHOOSE x \in X : \A z \in X : x <= z, 64>>

\* C7 as stated: TTC = minXCurr / ((minXPrev - minXCurr) * frameRate) with the
\* minima over the in-lane points supplied, for collections of any size >= 1.
C7_MinOverSuppliedPoints ==
    (pc = "done" /\ InLaneX(lidarPointsPrev) # {} /\ InLaneX(lidarPointsCurr) # {}) =>
        TTC = Quotient(LeastOr1e9(InLaneX(lidarPointsCurr)),
                       LeastOr1e9(InLaneX(lidarPointsPrev)), frameRate)

\* C7 amended: the minima are over the in-lane points that the clustering
\* keeps (those in a group of 30 to 25000 linked points), and 1e9 without such
\* a point; the quotient is an infinity when the two minima are equal.
C7_MinOverClusteredPoints ==
    pc = "done" =>
        TTC = Quotient(LeastOr1e9(SurvivingInLaneX(lidarPointsCurr)),
                       LeastOr1e9(SurvivingInLaneX(lidarPointsPrev)), frameRate)

\* A finished run with a cluster kept in each frame and a nearer stray point
\* dropped: TTC = 9.0 / ((10.0 - 9.0) * 10) = 0.9.
C7_Witness ==
    /\ pc = "done"
    /\ TTC = Double("value", 9, 10)
    /\ LeastOr1e9(InLaneX(lidarPointsCurr)) # LeastOr1e9(SurvivingInLaneX(lidarPointsCurr))


=============================================================================
